---- MODULE Spec2Model ----
(***************************************************************************)
(* A model of rsb (cavcrosby/rsb): the rule registry, the RAM price        *)
(* ceiling rule, the rule configuration binder (getRules), the two         *)
(* matchers (matchPosts, Heuristic.appliedTo) and the reporting loop of    *)
(* main.  Strings are sequences of one-character strings so that the       *)
(* regular expressions of the rule are computed, not assumed.              *)
(***************************************************************************)
EXTENDS Integers, Sequences, FiniteSets, TLC

VARIABLES
    heap,            \* the allocated rule objects; a rule pointer is an index
    ruleRegistry,    \* rule.ruleRegistry: rule name -> rule pointer
    call,            \* the last call made: its name, arguments and results
    pc,              \* where main is: "init", "main", "loop", "panicked"
    rules,           \* main's rules, the output of getRules
    postQueue,       \* postGather.postQueue
    stickyPostQueue, \* postGather.stickyPostQueue
    woken,           \* the posts handled since main last waited; wait() has
                     \* returned errfoundPost when it is not 0
    reports,         \* the reports handed to smtp.SendMail, in order
    matchCalls,      \* how many times main's loop invoked some rule's Match
    regLog           \* history: the pointers passed to RegisterRule, in order

vars == <<heap, ruleRegistry, call, pc, rules, postQueue, stickyPostQueue,
          woken, reports, matchCalls, regLog>>

\* the state of main and of its post handler
mainVars == <<pc, rules, postQueue, stickyPostQueue, woken, reports, matchCalls>>

----------------------------------------------------------------------------
(* Bounds *)

MaxTitleLen == 3      \* titles enumerated over TitleChars are this long at most
MaxPrice == 2         \* the prices a configuration document may give: 0..MaxPrice

----------------------------------------------------------------------------
(* Characters and the regular expressions of the RAM rule *)

Digits == {"0", "1", "2", "3", "4", "5", "6", "7", "8", "9"}

DigitVal == [c \in Digits |->
    CASE c = "0" -> 0 [] c = "1" -> 1 [] c = "2" -> 2 [] c = "3" -> 3
      [] c = "4" -> 4 [] c = "5" -> 5 [] c = "6" -> 6 [] c = "7" -> 7
      [] c = "8" -> 8 [] c = "9" -> 9]

Letters == {"a", "A", "c", "e", "h", "k", "i", "m", "M", "o", "r", "R", "s",
            "t", "B", "D", "G", "S"}

\* \w of RE2: [0-9A-Za-z_]
IsWordChar(c) == c \in Digits \cup Letters \cup {"_"}

\* case folding under (?i), for the letters of the pattern
Fold(c) == CASE c = "r" -> "R" [] c = "a" -> "A" [] c = "m" -> "M"
             [] OTHER -> c

\* \b at the gap before position i (1-based) of s
WordBoundary(s, i) ==
    LET before == i > 1 /\ IsWordChar(s[i - 1])
        after  == i <= Len(s) /\ IsWordChar(s[i])
    IN  before # after

\* reRamInTitle.FindStringIndex(title) # nil, reRamInTitle = (?i)\bRAM\b
reRamInTitle(title) ==
    \E i \in 1..(Len(title) - 2) :
        /\ Fold(title[i]) = "R"
        /\ Fold(title[i + 1]) = "A"
        /\ Fold(title[i + 2]) = "M"
        /\ WordBoundary(title, i)
        /\ WordBoundary(title, i + 3)

AllDigits(s, from, to) == \A k \in from..to : s[k] \in Digits
AllDots(s, from, to) == \A k \in from..to : s[k] = "."

\* the whole of s is \$\d+\.*\d*
IsCost(s) ==
    /\ Len(s) >= 2
    /\ s[1] = "$"
    /\ \E d \in 2..Len(s) : \E e \in d..Len(s) :
          /\ AllDigits(s, 2, d)
          /\ AllDots(s, d + 1, e)
          /\ AllDigits(s, e + 1, Len(s))

\* the last place of the longest run of characters of set that starts at
\* from; from - 1 when there is none
RunEnd(s, from, set) ==
    CHOOSE k \in (from - 1)..Len(s) :
        /\ \A j \in from..k : s[j] \in set
        /\ (k = Len(s) \/ s[k + 1] \notin set)

RECURSIVE CostsFrom(_, _)
\* the matches of \$\d+\.*\d* in s from place i on, leftmost and longest
CostsFrom(s, i) ==
    IF i >= Len(s) THEN << >>
    ELSE IF s[i] = "$" /\ s[i + 1] \in Digits
    THEN LET d == RunEnd(s, i + 1, Digits)
             e == RunEnd(s, d + 1, {"."})
             f == RunEnd(s, e + 1, Digits)
         IN  <<SubSeq(s, i, f)>> \o CostsFrom(s, f + 1)
    ELSE CostsFrom(s, i + 1)

\* a cost pattern without ^ and $: \$\d+\.*\d*
reCostInTitleUnanchored(title) == CostsFrom(title, 1)

\* reCostInTitle.FindAllString(title, -1), reCostInTitle = ^\$\d+\.*\d*$ :
\* without the m flag ^ and $ are the ends of the text, so the only possible
\* match is the whole title.
reCostInTitle(title) == IF IsCost(title) THEN <<title>> ELSE << >>

\* regexp.MustCompile(`\d+$`).FindAllString(s, -1): the digits that end s
TrailingDigits(s) ==
    IF Len(s) = 0 \/ s[Len(s)] \notin Digits THEN << >>
    ELSE LET start == CHOOSE i \in 1..Len(s) :
                        /\ AllDigits(s, i, Len(s))
                        /\ (i = 1 \/ s[i - 1] \notin Digits)
         IN  <<SubSeq(s, start, Len(s))>>

RECURSIVE Atoi(_)
\* strconv.Atoi on a string of digits
Atoi(s) == IF Len(s) = 0 THEN 0
           ELSE 10 * Atoi(SubSeq(s, 1, Len(s) - 1)) + DigitVal[s[Len(s)]]

\* a Match that does not look at how many costs were found
MatchOutcomeUnchecked(Price, title) ==
    IF ~reRamInTitle(title) THEN "false"
    ELSE LET costs == reCostInTitle(title)
         IN  IF Len(costs) = 0 THEN "panic"
             ELSE LET ds == TrailingDigits(costs[1])
                  IN  IF Len(ds) = 0 THEN "panic"
                      ELSE IF Atoi(ds[1]) > Price THEN "false"
                      ELSE "true"

\* RamUnderPrice.Match: "true", "false", or "panic" (the index [0] of an
\* empty FindAllString result)
MatchOutcome(Price, title) ==
    IF ~reRamInTitle(title) THEN "false"
    ELSE LET costs == reCostInTitle(title)
         IN  IF Len(costs) # 1 THEN "false"
             ELSE LET ds == TrailingDigits(costs[1])
                  IN  IF Len(ds) = 0 THEN "panic"
                      ELSE IF Atoi(ds[1]) > Price THEN "false"
                      ELSE "true"

----------------------------------------------------------------------------
(* Posts *)

\* a reddit.Post, as far as the program reads it; URL is read for the report
\* only and is determined by the ID here
NewPost(id, title, stickied) == [ID |-> id, Title |-> title, Stickied |-> stickied]

PostIds == {"p1", "p2"}

----------------------------------------------------------------------------
(* Rules: the Rule interface and its implementations *)

defaultPrice == 0

\* &RamUnderPrice{Price: defaultPrice}; Name() is "ramunderprice"
NewRamUnderPrice ==
    [type |-> "RamUnderPrice", name |-> "ramunderprice", Price |-> defaultPrice,
     accepts |-> {}]

\* Any other implementation of the Rule interface: a name, the same
\* configuration struct, and a Match that is a fixed predicate of the post
\* (the set of post IDs it accepts).
NewStub(name, accepts) ==
    [type |-> "Stub", name |-> name, Price |-> defaultPrice, accepts |-> accepts]

\* Rule.Name()
Name(obj) == obj.name

\* what a call of Rule.Match(post) on the rule object obj does: it returns
\* "true" or "false", or panics
MatchResult(obj, post) ==
    IF obj.type = "RamUnderPrice" THEN MatchOutcome(obj.Price, post.Title)
    ELSE IF post.ID \in obj.accepts THEN "true" ELSE "false"

\* Rule.Match(post) where it returns
Match(obj, post) == MatchResult(obj, post) = "true"

----------------------------------------------------------------------------
(* Configuration payloads: RuleConfig.Configs, json.Marshal, json.Unmarshal *)

\* the member names of the model; encoding/json matches a member to a field
\* by its tag exactly or else in any case, so "Price" and "price" both name
\* the field Price
ConfigKeys == {"Price", "other", "price"}

\* JSON values of a configuration: a whole number or a string
JsonNum(n) == [t |-> "num", v |-> n]
JsonStr == [t |-> "str", v |-> 0]

JsonValues == {JsonNum(n) : n \in 0..MaxPrice} \cup {JsonStr}

\* the Configs maps of the model: "price" and "Price" absent, a number or
\* a string; "other" (a member RamUnderPrice does not know) absent or 1
ConfigsSet ==
    UNION { {f \in [K -> JsonValues] : "other" \in K => f["other"] = JsonNum(1)}
            : K \in SUBSET ConfigKeys }

\* json.Marshal(rc.Configs): the object's members, keys in sorted (byte)
\* order: "Price" < "other" < "price"
Marshal(configs) ==
    LET member(k) == IF k \in DOMAIN configs
                     THEN <<[key |-> k, val |-> configs[k]]>> ELSE << >>
    IN  member("Price") \o member("other") \o member("price")

\* errors are sequences of strings; nil is the empty sequence
NoErr == << >>
JsonTypeError ==
    <<"json: cannot unmarshal string into Go struct field RamUnderPrice.price of type int">>

RECURSIVE Unmarshal(_, _, _)
\* json.Unmarshal(data, r) for r *RamUnderPrice, from member i on: a member
\* "price" (or "Price") that is a whole number sets Price; one that is not is a type
\* error, the field is left as it was, decoding goes on and the first such
\* error is returned; unknown members are skipped.
Unmarshal(data, i, acc) ==
    IF i > Len(data) THEN acc
    ELSE LET m == data[i]
         IN  IF m.key \notin {"price", "Price"} THEN Unmarshal(data, i + 1, acc)
             ELSE IF m.val.t = "num"
             THEN Unmarshal(data, i + 1, [acc EXCEPT !.obj.Price = m.val.v])
             ELSE Unmarshal(data, i + 1,
                     [acc EXCEPT !.err = IF acc.err = NoErr THEN JsonTypeError ELSE acc.err])

\* RamUnderPrice.RegisterConfigs(configs) on the object obj: the object after
\* the call and the error
RegisterConfigs(obj, data) == Unmarshal(data, 1, [obj |-> obj, err |-> NoErr])

\* the price a RegisterConfigs with these Configs writes, as a set: the last
\* whole-number member that names the field, if there is one
WrittenPrice(configs) ==
    IF "price" \in DOMAIN configs /\ configs["price"].t = "num"
    THEN {configs["price"].v}
    ELSE IF "Price" \in DOMAIN configs /\ configs["Price"].t = "num"
    THEN {configs["Price"].v}
    ELSE {}

----------------------------------------------------------------------------
(* The rule registry (package rule) *)

MaxRefs == 2          \* rule objects allocated at most
MaxRegs == 2          \* calls of RegisterRule at most
MaxNames == 2         \* names given to GetRegisteredRules at most

Nil == 0              \* the nil Rule

\* rule.init: ruleRegistry = make(RuleRegistry)
EmptyRegistry == << >>

\* a RegisterRule that stores a copy of the rule object
RegisterRuleCopy(hp, reg, r) ==
    [heap |-> Append(hp, hp[r]),
     reg  |-> [n \in DOMAIN reg \cup {Name(hp[r])} |->
                 IF n = Name(hp[r]) THEN Len(hp) + 1 ELSE reg[n]]]

\* a RegisterRule that keeps the rule already registered under the name
RegisterRuleFirstWins(hp, reg, r) ==
    [heap |-> hp,
     reg  |-> [n \in DOMAIN reg \cup {Name(hp[r])} |->
                 IF n \in DOMAIN reg THEN reg[n] ELSE r]]

\* RegisterRule(r): ruleRegistry[r.Name()] = r, r a pointer into the heap hp.
\* The heap is returned with the registry: registering allocates nothing.
RegisterRule(hp, reg, r) ==
    [heap |-> hp,
     reg  |-> [n \in DOMAIN reg \cup {Name(hp[r])} |->
                 IF n = Name(hp[r]) THEN r ELSE reg[n]]]

\* a RuleInRuleRegistry whose error does not say which rule
RuleInRuleRegistryNoName(reg, ruleName) ==
    IF ruleName \in DOMAIN reg
    THEN [rule |-> reg[ruleName], err |-> NoErr]
    ELSE [rule |-> Nil, err |-> <<"the following rule is not known: ">>]

\* RuleInRuleRegistry(ruleName)
RuleInRuleRegistry(reg, ruleName) ==
    IF ruleName \in DOMAIN reg
    THEN [rule |-> reg[ruleName], err |-> NoErr]
    ELSE [rule |-> Nil, err |-> <<"the following rule is not known: ", ruleName>>]

RECURSIVE GetRegisteredRulesSkipping(_, _, _, _)
\* a GetRegisteredRules that remembers the first error but goes on
GetRegisteredRulesSkipping(reg, ruleNames, i, rulesFound) ==
    IF i > Len(ruleNames) THEN [rulesFound |-> rulesFound, err |-> NoErr]
    ELSE LET res  == RuleInRuleRegistry(reg, ruleNames[i])
             rest == GetRegisteredRulesSkipping(reg, ruleNames, i + 1,
                        IF res.err = NoErr THEN Append(rulesFound, res.rule)
                        ELSE rulesFound)
         IN  IF res.err = NoErr THEN rest
             ELSE [rulesFound |-> rest.rulesFound, err |-> res.err]

RECURSIVE GetRegisteredRulesFrom(_, _, _, _)
\* the loop of GetRegisteredRules from the i-th name on
GetRegisteredRulesFrom(reg, ruleNames, i, rulesFound) ==
    IF i > Len(ruleNames) THEN [rulesFound |-> rulesFound, err |-> NoErr]
    ELSE LET res == RuleInRuleRegistry(reg, ruleNames[i])
         IN  IF res.err = NoErr
             THEN GetRegisteredRulesFrom(reg, ruleNames, i + 1,
                                         Append(rulesFound, res.rule))
             ELSE [rulesFound |-> rulesFound, err |-> res.err]

\* GetRegisteredRules(ruleNames) ([]Rule, error)
GetRegisteredRules(reg, ruleNames) ==
    GetRegisteredRulesFrom(reg, ruleNames, 1, << >>)

\* GetRegisteredRules(ruleNames *[]string, rulesFound *[]Rule) error, the
\* earlier revision: the rules are appended to the caller's slice
GetRegisteredRulesInto(reg, ruleNames, rulesFound) ==
    GetRegisteredRulesFrom(reg, ruleNames, 1, rulesFound)

----------------------------------------------------------------------------
(* Sequences of bounded length *)

SeqsUpTo(S, n) == UNION {[1..k -> S] : k \in 0..n}

----------------------------------------------------------------------------
(* The history of registrations, for stating what the registry must hold *)

\* the names under which RegisterRule has been called
RegisteredNames == {Name(heap[regLog[i]]) : i \in 1..Len(regLog)}

\* the pointer most recently passed to RegisterRule under name n
LastRegistered(n) ==
    LET is == {i \in 1..Len(regLog) : Name(heap[regLog[i]]) = n}
    IN  regLog[CHOOSE i \in is : \A j \in is : j <= i]

ErrNames(err, n) == \E i \in 1..Len(err) : err[i] = n

----------------------------------------------------------------------------
(* The registry as a state machine: package initialisation and the calls  *)
(* a client of package rule can make                                       *)

\* the state of main before it has started, with an empty history
MainIdle ==
    /\ pc = "init"
    /\ rules = << >>
    /\ postQueue = << >>
    /\ stickyPostQueue = {}
    /\ woken = 0
    /\ reports = << >>
    /\ matchCalls = 0

\* after rule.init: the registry is an empty map, no rule is allocated
InitRegistry ==
    /\ heap = << >>
    /\ ruleRegistry = EmptyRegistry
    /\ regLog = << >>
    /\ call = [op |-> "none"]
    /\ MainIdle

RuleNames == {"ramunderprice", "a"}
LookupNames == RuleNames \cup {"unknown-rule"}

\* the rule objects a package may construct
RuleObjects == {NewRamUnderPrice} \cup {NewStub(n, {}) : n \in RuleNames \ {"ramunderprice"}}

\* var ramUnderPrice *RamUnderPrice = &RamUnderPrice{Price: defaultPrice}
NewRuleStep ==
    /\ Len(heap) < MaxRefs
    /\ \E obj \in RuleObjects :
          /\ heap' = Append(heap, obj)
          /\ call' = [op |-> "new", r |-> Len(heap) + 1]
    /\ UNCHANGED <<ruleRegistry, regLog, mainVars>>

\* rule.RegisterRule(r)
RegisterRuleStep ==
    /\ Len(regLog) < MaxRegs
    /\ \E r \in 1..Len(heap) :
          LET res == RegisterRule(heap, ruleRegistry, r)
          IN  /\ heap' = res.heap
              /\ ruleRegistry' = res.reg
              /\ regLog' = Append(regLog, r)
              /\ call' = [op |-> "RegisterRule", r |-> r]
    /\ UNCHANGED mainVars

\* rule.RuleInRuleRegistry(ruleName)
RuleInRuleRegistryStep ==
    /\ \E ruleName \in LookupNames :
          LET res == RuleInRuleRegistry(ruleRegistry, ruleName)
          IN  call' = [op |-> "RuleInRuleRegistry", ruleName |-> ruleName,
                       rule |-> res.rule, err |-> res.err,
                       regBefore |-> ruleRegistry]
    /\ UNCHANGED <<heap, ruleRegistry, regLog, mainVars>>

\* rule.GetRegisteredRules(ruleNames)
GetRegisteredRulesStep ==
    /\ \E ruleNames \in SeqsUpTo(LookupNames, MaxNames) :
          LET res == GetRegisteredRules(ruleRegistry, ruleNames)
          IN  call' = [op |-> "GetRegisteredRules", ruleNames |-> ruleNames,
                       before |-> << >>,
                       rulesFound |-> res.rulesFound, err |-> res.err]
    /\ UNCHANGED <<heap, ruleRegistry, regLog, mainVars>>

\* rule.GetRegisteredRules(&ruleNames, &rulesFound), the earlier revision,
\* with a slice that may already hold a rule
GetRegisteredRulesIntoStep ==
    /\ \E ruleNames \in SeqsUpTo(LookupNames, MaxNames) :
       \E before \in {<<r>> : r \in 1..Len(heap)} :
          LET res == GetRegisteredRulesInto(ruleRegistry, ruleNames, before)
          IN  call' = [op |-> "GetRegisteredRules", ruleNames |-> ruleNames,
                       before |-> before,
                       rulesFound |-> res.rulesFound, err |-> res.err]
    /\ UNCHANGED <<heap, ruleRegistry, regLog, mainVars>>

\* the payloads the client of the registry sends: a price, a price of the
\* wrong type, a member the rule does not know
ClientConfigs ==
    ConfigsSet \cap {[price |-> JsonNum(1)], [price |-> JsonStr],
                     [other |-> JsonNum(1)]}

\* a client looks a rule up and configures what it got:
\* rule, _ := rule.RuleInRuleRegistry(ruleName); rule.RegisterConfigs(data)
ConfigureStep ==
    /\ \E ruleName \in DOMAIN ruleRegistry : \E configs \in ClientConfigs :
          LET r   == RuleInRuleRegistry(ruleRegistry, ruleName).rule
              res == RegisterConfigs(heap[r], Marshal(configs))
          IN  /\ heap' = [heap EXCEPT ![r] = res.obj]
              /\ call' = [op |-> "RegisterConfigs", ruleName |-> ruleName,
                           rule |-> r, configs |-> configs, err |-> res.err]
    /\ UNCHANGED <<ruleRegistry, regLog, mainVars>>

NextRegistry ==
    \/ NewRuleStep
    \/ RegisterRuleStep
    \/ RuleInRuleRegistryStep
    \/ ConfigureStep

SpecRegistry == InitRegistry /\ [][NextRegistry]_vars

----------------------------------------------------------------------------
(* Bulk lookup, from every registry that registrations can build *)

RECURSIVE RegistryAfter(_, _, _)
\* the registry after RegisterRule was called with log[i], log[i+1], ...
RegistryAfter(hp, reg, log) ==
    IF log = << >> THEN reg
    ELSE RegistryAfter(hp, RegisterRule(hp, reg, Head(log)).reg, Tail(log))

\* some rules were constructed and some of them registered, in some order
InitRegistered ==
    /\ heap \in SeqsUpTo(RuleObjects, MaxRefs)
    /\ regLog \in SeqsUpTo(1..Len(heap), MaxRegs)
    /\ ruleRegistry = RegistryAfter(heap, EmptyRegistry, regLog)
    /\ call = [op |-> "none"]
    /\ MainIdle

NextLookup ==
    \/ GetRegisteredRulesStep
    \/ GetRegisteredRulesIntoStep

SpecLookup == InitRegistered /\ [][NextLookup]_vars

----------------------------------------------------------------------------
(* The RAM price ceiling rule on its own: configured and asked to match *)

TitleChars == {"R", "a", "M", "$", "1", ".", " "}

\* the price of the example configuration ("price": 100)
ExamplePrice == 100

\* titles written out: "32GB RAM $99.99", "32GB RAM $150", "32GB SSD $50",
\* "RAM $50 or $70", "cream cheese $10", "Ram kit $10", "RAM $1", "$1 RAM",
\* "$99.", "$100", "RAM $0"
ExampleTitles ==
    { <<"3","2","G","B"," ","R","A","M"," ","$","9","9",".","9","9">>,
      <<"3","2","G","B"," ","R","A","M"," ","$","1","5","0">>,
      <<"3","2","G","B"," ","S","S","D"," ","$","5","0">>,
      <<"R","A","M"," ","$","5","0"," ","o","r"," ","$","7","0">>,
      <<"c","r","e","a","m"," ","c","h","e","e","s","e"," ","$","1","0">>,
      <<"R","a","m"," ","k","i","t"," ","$","1","0">>,
      <<"R","A","M"," ","$","1">>,
      <<"$","1"," ","R","A","M">>,
      <<"$","9","9",".">>,
      <<"$","1","0","0">>,
      <<"R","A","M"," ","$","0">> }

Titles == SeqsUpTo(TitleChars, MaxTitleLen) \cup ExampleTitles

\* the configurations given to the rule: ceilings (that of the example among
\* them), a ceiling of the wrong type, "Price" for "price", an unknown member
MatchConfigs ==
    (ConfigsSet \cap {[price |-> JsonNum(1)], [price |-> JsonStr],
                      [Price |-> JsonNum(0)], [other |-> JsonNum(1)]})
    \cup {[price |-> JsonNum(ExamplePrice)]}

\* after the init of package ramunderprice: one rule, registered; the
\* caller holds a post with some title
InitMatch ==
    /\ heap = <<NewRamUnderPrice>>
    /\ regLog = <<1>>
    /\ ruleRegistry = RegisterRule(heap, EmptyRegistry, 1).reg
    /\ call = [op |-> "none"]
    /\ pc = "init"
    /\ rules = << >>
    /\ \E title \in Titles : postQueue = <<NewPost("p1", title, FALSE)>>
    /\ stickyPostQueue = {}
    /\ woken = 0
    /\ reports = << >>
    /\ matchCalls = 0

\* r.RegisterConfigs(configs) on a rule the caller holds
RegisterConfigsStep ==
    /\ \E r \in 1..Len(heap) :
       \E configs \in MatchConfigs :
          LET res == RegisterConfigs(heap[r], Marshal(configs))
          IN  /\ heap' = [heap EXCEPT ![r] = res.obj]
              /\ call' = [op |-> "RegisterConfigs", ruleName |-> Name(heap[r]),
                           rule |-> r, configs |-> configs, err |-> res.err,
                           before |-> heap[r].Price]
    /\ UNCHANGED <<ruleRegistry, regLog, mainVars>>

\* a Match that uses its ceiling up: the rule is left with the default
MatchCallSpending(obj, post) ==
    [outcome |-> MatchResult(obj, post),
     obj     |-> [obj EXCEPT !.Price = defaultPrice],
     post    |-> post]

\* a call r.Match(post) with its effects: what it returns, and the rule
\* object *r and the post *post as the call leaves them.  Match assigns to
\* no field of r or of post and to no package variable.
MatchCall(obj, post) ==
    [outcome |-> MatchResult(obj, post), obj |-> obj, post |-> post]

\* r.Match(post) on a rule the caller holds
MatchStep ==
    /\ \E r \in 1..Len(heap) :
          LET post == postQueue[1]
              res  == MatchCall(heap[r], post)
          IN  /\ heap' = [heap EXCEPT ![r] = res.obj]
              /\ call' = [op |-> "Match", rule |-> r, post |-> post,
                           postAfter |-> res.post,
                           Price |-> heap[r].Price,
                           outcome |-> res.outcome,
                           heapBefore |-> heap,
                           regBefore |-> ruleRegistry]
    /\ UNCHANGED <<ruleRegistry, regLog, mainVars>>

NextMatch ==
    \/ RegisterConfigsStep
    \/ MatchStep

SpecMatch == InitMatch /\ [][NextMatch]_vars

\* the places of title where a dollar amount $<digits>[.<digits>] starts
DollarAmounts(title) ==
    {i \in 1..(Len(title) - 1) : title[i] = "$" /\ title[i + 1] \in Digits}

\* the integer dollar portion of the amount that starts at place i
DollarPortion(title, i) ==
    LET last == CHOOSE k \in (i + 1)..Len(title) :
                    /\ AllDigits(title, i + 1, k)
                    /\ (k = Len(title) \/ title[k + 1] \notin Digits)
    IN  Atoi(SubSeq(title, i + 1, last))

\* the match the specification describes for the RAM price ceiling rule
DescribedMatch(title, ceiling) ==
    /\ reRamInTitle(title)
    /\ Cardinality(DollarAmounts(title)) = 1
    /\ \A i \in DollarAmounts(title) : DollarPortion(title, i) <= ceiling

\* C1: Match returns true exactly when the title holds the whole word RAM
\* (in any case), holds exactly one dollar amount $<digits>[.<digits>], and
\* the integer dollar portion of the amount is at most the ceiling.
C1_MatchIsRamAndOnePriceUnderCeiling ==
    (call.op = "Match" /\ heap[call.rule].type = "RamUnderPrice")
    => ((call.outcome = "true") <=> DescribedMatch(call.post.Title, call.Price))

\* C13: on a title without the whole word RAM, or with no dollar amount or
\* more than one, Match of the RAM rule returns false and does not panic,
\* whatever the ceiling.
C13_AmbiguousTitleIsANonMatch ==
    (/\ call.op = "Match"
     /\ call.heapBefore[call.rule].type = "RamUnderPrice"
     /\ \/ ~reRamInTitle(call.post.Title)
        \/ Cardinality(DollarAmounts(call.post.Title)) # 1)
    => call.outcome = "false"

C13_Witness ==
    /\ call.op = "Match"
    /\ call.Price = ExamplePrice
    /\ reRamInTitle(call.post.Title)
    /\ Cardinality(DollarAmounts(call.post.Title)) = 2
    /\ call.outcome = "false"

\* the one dollar amount of a title that has exactly one
SinglePrice(title) ==
    DollarPortion(title, CHOOSE i \in DollarAmounts(title) : TRUE)

\* C14 as stated: RegisterConfigs on a rule configured before overwrites
\* the ceiling, and a Match that follows returns true on a title with the
\* word RAM whose single price is above the old ceiling and at most the new.
C14_ReconfiguringChangesMatch ==
    [][(/\ call.op = "RegisterConfigs"
        /\ call.err = NoErr
        /\ call.before # defaultPrice
        /\ WrittenPrice(call.configs) # {}
        /\ call'.op = "Match"
        /\ call'.rule = call.rule)
       => /\ heap[call.rule].Price \in WrittenPrice(call.configs)
          /\ (/\ reRamInTitle(call'.post.Title)
              /\ Cardinality(DollarAmounts(call'.post.Title)) = 1
              /\ SinglePrice(call'.post.Title) > call.before
              /\ SinglePrice(call'.post.Title) <= heap[call.rule].Price)
             => /\ MatchResult([heap[call.rule] EXCEPT !.Price = call.before],
                               call'.post) = "false"
                /\ call'.outcome = "true"]_vars

\* C15: Match of a RAM rule that is as its package's init made it (ceiling
\* defaultPrice, never configured) returns false on every title.
C15_UnconfiguredRuleMatchesNothing ==
    (/\ call.op = "Match"
     /\ call.heapBefore[call.rule] = NewRamUnderPrice)
    => call.outcome = "false"

C15_Witness ==
    /\ call.op = "Match"
    /\ call.heapBefore[call.rule] = NewRamUnderPrice
    /\ call.post.Title = <<"R","A","M"," ","$","0">>
    /\ call.outcome = "false"

\* C16: a call of Match changes neither the rule (its ceiling, its name),
\* nor the registry, nor the post, and a Match that follows on the same
\* post under the same ceiling returns the same result.
C16_MatchIsPure ==
    /\ [](call.op = "Match" =>
            /\ heap = call.heapBefore
            /\ heap[call.rule].Price = call.Price
            /\ Name(heap[call.rule]) = Name(call.heapBefore[call.rule])
            /\ ruleRegistry = call.regBefore
            /\ call.postAfter = call.post)
    /\ [][(/\ call.op = "Match"
            /\ call'.op = "Match"
            /\ call'.rule = call.rule
            /\ call'.post = call.post)
           => call'.outcome = call.outcome]_vars

C16_Witness ==
    /\ call.op = "Match"
    /\ call.Price = 1
    /\ call.post.Title = <<"R","A","M"," ","$","1">>
    /\ heap = call.heapBefore
    /\ ruleRegistry = call.regBefore

----------------------------------------------------------------------------
(* The matchers: matchPosts (main) and Heuristic.appliedTo *)

MaxRules == 2         \* rules given to a matcher at most
MaxPosts == 2         \* posts given to a matcher at most

\* a map with the entry key -> val set
MapSet(m, key, val) ==
    [k \in DOMAIN m \cup {key} |-> IF k = key THEN val ELSE m[k]]

RECURSIVE matchPostsFirstWins(_, _, _, _, _, _)
\* a matchPosts that keeps the first post a rule name matched
matchPostsFirstWins(hp, rs, posts, i, j, matches) ==
    IF i > Len(posts) THEN matches
    ELSE IF j > Len(rs) THEN matchPostsFirstWins(hp, rs, posts, i + 1, 1, matches)
    ELSE matchPostsFirstWins(hp, rs, posts, i, j + 1,
            IF Match(hp[rs[j]], posts[i]) /\ Name(hp[rs[j]]) \notin DOMAIN matches
            THEN MapSet(matches, Name(hp[rs[j]]), posts[i])
            ELSE matches)

RECURSIVE matchPostsFrom(_, _, _, _, _, _)
\* the loops of matchPosts at post i and rule j
matchPostsFrom(hp, rs, posts, i, j, matches) ==
    IF i > Len(posts) THEN matches
    ELSE IF j > Len(rs) THEN matchPostsFrom(hp, rs, posts, i + 1, 1, matches)
    ELSE matchPostsFrom(hp, rs, posts, i, j + 1,
            IF Match(hp[rs[j]], posts[i])
            THEN MapSet(matches, Name(hp[rs[j]]), posts[i])
            ELSE matches)

\* matchPosts(rules, posts) map[string]*reddit.Post
matchPosts(hp, rs, posts) == matchPostsFrom(hp, rs, posts, 1, 1, << >>)

RECURSIVE postPassesLastRule(_, _, _, _, _)
\* an inner loop that assigns postPasses = rule.Match(post) at every rule
postPassesLastRule(hp, rs, post, j, postPasses) ==
    IF j > Len(rs) THEN postPasses
    ELSE postPassesLastRule(hp, rs, post, j + 1, Match(hp[rs[j]], post))

RECURSIVE postPassesFrom(_, _, _, _, _)
\* the inner loop of appliedTo from rule j on: postPasses at its end
postPassesFrom(hp, rs, post, j, postPasses) ==
    IF j > Len(rs) THEN postPasses
    ELSE postPassesFrom(hp, rs, post, j + 1,
            IF ~Match(hp[rs[j]], post) THEN FALSE ELSE postPasses)

RECURSIVE appliedToFrom(_, _, _, _, _)
\* the outer loop of appliedTo from post i on
appliedToFrom(hp, rs, posts, i, matches) ==
    IF i > Len(posts) THEN matches
    ELSE appliedToFrom(hp, rs, posts, i + 1,
            IF postPassesFrom(hp, rs, posts[i], 1, TRUE)
            THEN Append(matches, posts[i]) ELSE matches)

\* (h *Heuristic) appliedTo(posts, matches), h.rules = rs
appliedTo(hp, rs, posts, matches) == appliedToFrom(hp, rs, posts, 1, matches)

\* the posts of the model: each ID with a title
PostPool ==
    { NewPost("p1", <<"R","A","M"," ","$","1">>, FALSE),
      NewPost("p2", <<"$","1","0","0">>, FALSE) }

\* the rule objects given to the matchers: the RAM rule and every rule that
\* is a fixed predicate of the post, under two names
MatcherObjects ==
    {NewRamUnderPrice} \cup {NewStub(n, acc) : n \in {"a", "b"}, acc \in SUBSET PostIds}

\* two rules exist; main holds some rules and some posts
InitMatcher ==
    /\ heap \in [1..2 -> MatcherObjects]
    /\ ruleRegistry = EmptyRegistry
    /\ regLog = << >>
    /\ call = [op |-> "none"]
    /\ pc = "loop"
    /\ rules \in SeqsUpTo(1..2, MaxRules)
    /\ postQueue \in SeqsUpTo(PostPool, MaxPosts)
    /\ stickyPostQueue = {}
    /\ woken = 0
    /\ reports = << >>
    /\ matchCalls = 0

\* matches := matchPosts(rules, posts)
matchPostsStep ==
    /\ call' = [op |-> "matchPosts", rules |-> rules, posts |-> postQueue,
                 matches |-> matchPosts(heap, rules, postQueue)]
    /\ UNCHANGED <<heap, ruleRegistry, regLog, mainVars>>

\* h.appliedTo(&posts, &matches), matches empty or holding a post already
appliedToStep ==
    /\ \E before \in {<< >>} \cup {<<p>> : p \in PostPool} :
          call' = [op |-> "appliedTo", rules |-> rules, posts |-> postQueue,
                   before |-> before,
                   matches |-> appliedTo(heap, rules, postQueue, before)]
    /\ UNCHANGED <<heap, ruleRegistry, regLog, mainVars>>

NextMatcher ==
    \/ matchPostsStep
    \/ appliedToStep

SpecMatcher == InitMatcher /\ [][NextMatcher]_vars

\* the places of posts that some rule of rs named n matches
MatchedAt(rs, posts, n) ==
    {i \in 1..Len(posts) :
        \E j \in 1..Len(rs) : Name(heap[rs[j]]) = n /\ Match(heap[rs[j]], posts[i])}

PassAll(rs, posts) ==
    {i \in 1..Len(posts) : \A j \in 1..Len(rs) : Match(heap[rs[j]], posts[i])}

RECURSIVE Pick(_, _, _)
\* the elements of posts at the places in at, from place i on, in order
Pick(posts, at, i) ==
    IF i > Len(posts) THEN << >>
    ELSE (IF i \in at THEN <<posts[i]>> ELSE << >>) \o Pick(posts, at, i + 1)

\* C4: appliedTo appends to matches exactly the posts for which every rule
\* of the list returns true, in input order, and keeps what matches held.
C4_AppliedToKeepsPostsPassingEveryRule ==
    call.op = "appliedTo" =>
        call.matches = call.before \o Pick(call.posts, PassAll(call.rules, call.posts), 1)

C4_Witness ==
    /\ call.op = "appliedTo"
    /\ Len(call.rules) = 2
    /\ Len(call.posts) = 2
    /\ heap[call.rules[1]].accepts = PostIds
    /\ heap[call.rules[2]].accepts = {"p2"}
    /\ call.posts[1].ID = "p1"
    /\ call.posts[2].ID = "p2"
    /\ call.before = << >>
    /\ call.matches = <<call.posts[2]>>

----------------------------------------------------------------------------
(* The rule configuration binder: getRules, as main calls it on the rules  *)
(* of the configuration file.  The earlier revision (rules appended        *)
(* through a pointer, only the error returned) runs the same steps.        *)

MaxEntries == 3       \* RuleConfig entries in a configuration at most

RECURSIVE getRulesSkipping(_, _, _, _, _, _)
\* a getRules that reports the first error but goes on to the later entries
getRulesSkipping(hp, reg, rcs, i, rs, calls) ==
    IF i > Len(rcs) THEN [rules |-> rs, err |-> NoErr, heap |-> hp, calls |-> calls]
    ELSE LET rc  == rcs[i]
             res == RuleInRuleRegistry(reg, rc.ID)
             cfg == RegisterConfigs(hp[res.rule], Marshal(rc.Configs))
             configure == res.err = NoErr /\ DOMAIN rc.Configs # {}
             err  == IF res.err # NoErr THEN res.err
                     ELSE IF configure THEN cfg.err ELSE NoErr
             rest == getRulesSkipping(
                        IF configure THEN [hp EXCEPT ![res.rule] = cfg.obj] ELSE hp,
                        reg, rcs, i + 1,
                        IF err = NoErr THEN Append(rs, res.rule) ELSE rs,
                        IF configure THEN Append(calls, [entry |-> i, rule |-> res.rule])
                        ELSE calls)
         IN  IF err = NoErr THEN rest ELSE [rest EXCEPT !.err = err]

RECURSIVE getRulesPrepending(_, _, _, _, _, _)
\* a getRules that puts each resolved rule in front of those it already has
getRulesPrepending(hp, reg, rcs, i, rs, calls) ==
    IF i > Len(rcs) THEN [rules |-> rs, err |-> NoErr, heap |-> hp, calls |-> calls]
    ELSE LET rc  == rcs[i]
             res == RuleInRuleRegistry(reg, rc.ID)
             configure == res.err = NoErr /\ DOMAIN rc.Configs # {}
             cfg == RegisterConfigs(hp[res.rule], Marshal(rc.Configs))
             hp2 == IF configure THEN [hp EXCEPT ![res.rule] = cfg.obj] ELSE hp
             calls2 == IF configure
                       THEN Append(calls, [entry |-> i, rule |-> res.rule])
                       ELSE calls
         IN  IF res.err # NoErr
             THEN [rules |-> rs, err |-> res.err, heap |-> hp, calls |-> calls]
             ELSE IF configure /\ cfg.err # NoErr
             THEN [rules |-> rs, err |-> cfg.err, heap |-> hp2, calls |-> calls2]
             ELSE getRulesPrepending(hp2, reg, rcs, i + 1, <<res.rule>> \o rs, calls2)

RECURSIVE getRulesConfiguringOnce(_, _, _, _, _, _)
\* a getRules that configures a rule at the first entry that names it with
\* Configs and at no later one
getRulesConfiguringOnce(hp, reg, rcs, i, rs, calls) ==
    IF i > Len(rcs) THEN [rules |-> rs, err |-> NoErr, heap |-> hp, calls |-> calls]
    ELSE LET rc  == rcs[i]
             res == RuleInRuleRegistry(reg, rc.ID)
             configure == /\ res.err = NoErr
                          /\ DOMAIN rc.Configs # {}
                          /\ \A k \in 1..Len(calls) : calls[k].rule # res.rule
             cfg == RegisterConfigs(hp[res.rule], Marshal(rc.Configs))
             hp2 == IF configure THEN [hp EXCEPT ![res.rule] = cfg.obj] ELSE hp
             calls2 == IF configure
                       THEN Append(calls, [entry |-> i, rule |-> res.rule])
                       ELSE calls
         IN  IF res.err # NoErr
             THEN [rules |-> rs, err |-> res.err, heap |-> hp, calls |-> calls]
             ELSE IF configure /\ cfg.err # NoErr
             THEN [rules |-> rs, err |-> cfg.err, heap |-> hp2, calls |-> calls2]
             ELSE getRulesConfiguringOnce(hp2, reg, rcs, i + 1, Append(rs, res.rule), calls2)

RECURSIVE getRulesFrom(_, _, _, _, _, _)
\* the loop of getRules from entry i on: the rules and the error it returns,
\* the rule objects as it leaves them, and the calls of RegisterConfigs it
\* made (the entry and the rule)
getRulesFrom(hp, reg, rcs, i, rs, calls) ==
    IF i > Len(rcs) THEN [rules |-> rs, err |-> NoErr, heap |-> hp, calls |-> calls]
    ELSE LET rc  == rcs[i]
             res == RuleInRuleRegistry(reg, rc.ID)
         IN  IF DOMAIN rc.Configs # {}
             THEN \* json.Marshal of a map decoded from JSON does not fail
                  IF res.err # NoErr
                  THEN [rules |-> rs, err |-> res.err, heap |-> hp, calls |-> calls]
                  ELSE LET cfg    == RegisterConfigs(hp[res.rule], Marshal(rc.Configs))
                           hp2    == [hp EXCEPT ![res.rule] = cfg.obj]
                           calls2 == Append(calls, [entry |-> i, rule |-> res.rule])
                       IN  IF cfg.err # NoErr
                           THEN [rules |-> rs, err |-> cfg.err, heap |-> hp2,
                                 calls |-> calls2]
                           ELSE getRulesFrom(hp2, reg, rcs, i + 1,
                                             Append(rs, res.rule), calls2)
             ELSE IF res.err # NoErr
                  THEN [rules |-> rs, err |-> res.err, heap |-> hp, calls |-> calls]
                  ELSE getRulesFrom(hp, reg, rcs, i + 1, Append(rs, res.rule), calls)

\* a getRules that undoes the configurations it applied when it fails
getRulesRollback(hp, reg, rcs) ==
    LET res == getRulesFrom(hp, reg, rcs, 1, << >>, << >>)
    IN  IF res.err = NoErr THEN res ELSE [res EXCEPT !.heap = hp]

\* getRules(rcs) ([]rule.Rule, error)
getRules(hp, reg, rcs) == getRulesFrom(hp, reg, rcs, 1, << >>, << >>)

\* the Configs of the entries: none, a price, another price, a price of the
\* wrong type, a member the rule does not know, and a wrong "Price" beside
\* a good "price"
BindConfigs ==
    (ConfigsSet \cap {[price |-> JsonNum(1)], [price |-> JsonNum(2)],
                      [price |-> JsonStr], [other |-> JsonNum(1)]})
    \cup {<< >>, [Price |-> JsonStr, price |-> JsonNum(2)]}

BindEntries == [ID : LookupNames, Configs : BindConfigs]

\* main has read the configuration file; the RAM rule and another rule
\* exist and the packages' init functions have registered some of them
InitBind ==
    /\ heap = <<NewRamUnderPrice, NewStub("a", {})>>
    /\ regLog \in {<< >>, <<1>>, <<2>>, <<1, 2>>}
    /\ ruleRegistry = RegistryAfter(heap, EmptyRegistry, regLog)
    /\ \E rcs \in SeqsUpTo(BindEntries, MaxEntries) :
          call = [op |-> "config", rcs |-> rcs]
    /\ pc = "main"
    /\ rules = << >>
    /\ postQueue = << >>
    /\ stickyPostQueue = {}
    /\ woken = 0
    /\ reports = << >>
    /\ matchCalls = 0

\* a main that logs the error of getRules and goes on to its loop
getRulesStepGoingOn ==
    /\ pc = "main"
    /\ LET res == getRulesFrom(heap, ruleRegistry, call.rcs, 1, << >>, << >>)
       IN  /\ heap' = res.heap
           /\ rules' = res.rules
           /\ pc' = "loop"
           /\ call' = [op |-> "getRules", rcs |-> call.rcs, rules |-> res.rules,
                        err |-> res.err, calls |-> res.calls, heapBefore |-> heap]
    /\ UNCHANGED <<ruleRegistry, regLog, postQueue, stickyPostQueue, woken,
                   reports, matchCalls>>

\* rules, err := getRules(ct.RuleConfigs); if err != nil { log.Panic(err) }
getRulesStep ==
    /\ pc = "main"
    /\ LET res == getRules(heap, ruleRegistry, call.rcs)
       IN  /\ heap' = res.heap
           /\ rules' = res.rules
           /\ pc' = IF res.err = NoErr THEN "loop" ELSE "panicked"
           /\ call' = [op |-> "getRules", rcs |-> call.rcs, rules |-> res.rules,
                        err |-> res.err, calls |-> res.calls, heapBefore |-> heap]
    /\ UNCHANGED <<ruleRegistry, regLog, postQueue, stickyPostQueue, woken,
                   reports, matchCalls>>

NextBind == getRulesStep

SpecBind == InitBind /\ [][NextBind]_vars

\* a RegisterConfigs with these Configs returns an error
ConfigFails(configs) ==
    \E k \in DOMAIN configs \cap {"price", "Price"} : configs[k].t # "num"

\* the entries of rcs that cannot be resolved or configured
FailingEntries(rcs) ==
    {i \in 1..Len(rcs) :
        \/ rcs[i].ID \notin RegisteredNames
        \/ (DOMAIN rcs[i].Configs # {} /\ ConfigFails(rcs[i].Configs))}

\* the first of them; Len(rcs) + 1 when there is none
FirstFailing(rcs) ==
    IF FailingEntries(rcs) = {} THEN Len(rcs) + 1
    ELSE CHOOSE i \in FailingEntries(rcs) : \A j \in FailingEntries(rcs) : i <= j

\* C9: getRules fails exactly when some entry's ID is not registered or its
\* RegisterConfigs fails; it then stops at the first such entry: it returns
\* the rules of the entries before it, has called RegisterConfigs for no
\* later entry, and a rule that only later entries name is as it was.
C9_BindFailsAtFirstBadEntry ==
    call.op = "getRules" =>
        LET rcs   == call.rcs
            first == FirstFailing(rcs)
        IN  /\ (call.err # NoErr) <=> (FailingEntries(rcs) # {})
            /\ FailingEntries(rcs) # {} =>
                  /\ Len(call.rules) = first - 1
                  /\ rcs[first].ID \notin RegisteredNames => ErrNames(call.err, rcs[first].ID)
                  /\ rcs[first].ID \in RegisteredNames => call.err = JsonTypeError
                  /\ \A k \in 1..Len(call.calls) : call.calls[k].entry <= first
                  /\ \A r \in 1..Len(heap) :
                        (\A i \in 1..first :
                            RuleInRuleRegistry(ruleRegistry, rcs[i].ID).rule # r)
                        => /\ heap[r] = call.heapBefore[r]
                           /\ \A k \in 1..Len(call.calls) : call.calls[k].rule # r

C9_Witness ==
    /\ call.op = "getRules"
    /\ call.err # NoErr
    /\ FirstFailing(call.rcs) = 1
    /\ Len(call.rcs) = 2
    /\ call.rcs[2].ID \in RegisteredNames
    /\ WrittenPrice(call.rcs[2].Configs) # {}
    /\ call.calls = << >>

\* C10 as stated: when binding fails, every rule configured by an earlier
\* entry has the configuration that entry applied.
C10_EarlierEntryConfigurationKept ==
    (call.op = "getRules" /\ call.err # NoErr) =>
        \A i \in 1..(FirstFailing(call.rcs) - 1) :
            \A v \in WrittenPrice(call.rcs[i].Configs) :
                heap[LastRegistered(call.rcs[i].ID)].Price = v

\* the entries up to the failing one that write the price of rule r
Writers(rcs, r) ==
    {i \in 1..FirstFailing(rcs) :
        /\ i <= Len(rcs)
        /\ rcs[i].ID \in RegisteredNames
        /\ LastRegistered(rcs[i].ID) = r
        /\ WrittenPrice(rcs[i].Configs) # {}}

\* C10, amended: when binding fails nothing is rolled back: every rule has
\* the price written by the last entry, up to and including the failing
\* one, whose RegisterConfigs wrote a price to it, and a rule none of them
\* wrote to has the price it had.
C10_NoRollback ==
    (call.op = "getRules" /\ call.err # NoErr) =>
        \A r \in 1..Len(heap) :
            LET ws == Writers(call.rcs, r)
            IN  IF ws = {} THEN heap[r] = call.heapBefore[r]
                ELSE LET last == CHOOSE i \in ws : \A j \in ws : j <= i
                     IN  heap[r] = [call.heapBefore[r] EXCEPT
                                      !.Price = CHOOSE v \in WrittenPrice(call.rcs[last].Configs) : TRUE]

C10_Witness ==
    /\ call.op = "getRules"
    /\ call.err # NoErr
    /\ FirstFailing(call.rcs) = 2
    /\ WrittenPrice(call.rcs[1].Configs) # {}
    /\ heap[LastRegistered(call.rcs[1].ID)].Price # defaultPrice
    /\ heap[LastRegistered(call.rcs[1].ID)].Price
          = call.rcs[1].Configs["price"].v

\* C11: when getRules succeeds it returns exactly one rule per entry, the
\* i-th being the rule registered under the i-th entry's ID; on no entries
\* it returns no rules and no error.
C11_BindKeepsEntryOrder ==
    call.op = "getRules" =>
        /\ call.err = NoErr =>
              /\ Len(call.rules) = Len(call.rcs)
              /\ \A i \in 1..Len(call.rcs) :
                    /\ call.rcs[i].ID \in RegisteredNames
                    /\ call.rules[i] = LastRegistered(call.rcs[i].ID)
        /\ call.rcs = << >> => (call.err = NoErr /\ call.rules = << >>)
        /\ rules = call.rules

C11_Witness ==
    /\ call.op = "getRules"
    /\ call.err = NoErr
    /\ Len(call.rcs) = 3
    /\ call.rcs[1].ID = "a"
    /\ call.rcs[2].ID = "ramunderprice"
    /\ call.rcs[3].ID = "a"
    /\ call.rules = <<2, 1, 2>>

\* the entries of rcs that name the rule r
Naming(rcs, r) ==
    {i \in 1..Len(rcs) :
        rcs[i].ID \in RegisteredNames /\ LastRegistered(rcs[i].ID) = r}

\* the greatest member of a non-empty set of numbers
Last(S) == CHOOSE i \in S : \A j \in S : j <= i

\* C17: when a successful binding has several entries with the same ID,
\* each of them yields the one registered instance, and that instance has
\* the ceiling given by the last of them that has Configs (by the last that
\* gives a ceiling at all, when that one gives none), so a Match through any
\* occurrence is a Match under that ceiling.
C17_SharedInstanceLastConfigWins ==
    (call.op = "getRules" /\ call.err = NoErr) =>
        \A r \in 1..Len(heap) :
            LET es == Naming(call.rcs, r)
                ne == {i \in es : DOMAIN call.rcs[i].Configs # {}}
                ws == {i \in es : WrittenPrice(call.rcs[i].Configs) # {}}
            IN  Cardinality(es) >= 2 =>
                  /\ \A i \in es : call.rules[i] = r
                  /\ ne # {} =>
                        \A v \in WrittenPrice(call.rcs[Last(ne)].Configs) :
                            /\ heap[r].Price = v
                            /\ \A i \in es : \A post \in PostPool :
                                  MatchResult(heap[call.rules[i]], post)
                                    = MatchResult([call.heapBefore[r] EXCEPT !.Price = v], post)
                  /\ ws # {} =>
                        heap[r].Price \in WrittenPrice(call.rcs[Last(ws)].Configs)
                  /\ ws = {} => heap[r] = call.heapBefore[r]

C17_Witness ==
    /\ call.op = "getRules"
    /\ call.err = NoErr
    /\ Len(call.rcs) = 3
    /\ \A i \in 1..3 : call.rcs[i].ID = "ramunderprice"
    /\ call.rcs[1].Configs = [price |-> JsonNum(1)]
    /\ call.rcs[2].Configs = [price |-> JsonNum(2)]
    /\ call.rcs[3].Configs = << >>
    /\ call.rules = <<1, 1, 1>>
    /\ heap[1].Price = 2

----------------------------------------------------------------------------
(* The registry's contract, stated on the history of registrations *)

\* C5: after any sequence of registrations, looking up a name under which
\* no rule was registered fails with an error that carries the name, returns
\* no rule, and leaves the registry as it was.
C5_LookupOfUnregisteredFails ==
    (call.op = "RuleInRuleRegistry" /\ call.ruleName \notin RegisteredNames)
    => /\ call.err # NoErr
       /\ ErrNames(call.err, call.ruleName)
       /\ call.rule = Nil
       /\ ruleRegistry = call.regBefore

C5_Witness ==
    /\ call.op = "RuleInRuleRegistry"
    /\ call.ruleName \notin RegisteredNames
    /\ Len(regLog) >= 1

\* C6: looking up the name of a registered rule returns the very pointer
\* that was (last) registered under it, and a configuration applied through
\* the looked-up rule is read back through that pointer and through a new
\* lookup of the name.
C6_LookupReturnsTheInstance ==
    /\ \A n \in RegisteredNames :
          RuleInRuleRegistry(ruleRegistry, n) = [rule |-> LastRegistered(n), err |-> NoErr]
    /\ (/\ call.op = "RegisterConfigs"
        /\ "price" \in DOMAIN call.configs
        /\ call.configs["price"].t = "num")
       => /\ heap[LastRegistered(call.ruleName)].Price = call.configs["price"].v
          /\ heap[RuleInRuleRegistry(ruleRegistry, call.ruleName).rule].Price
                = call.configs["price"].v

C6_Witness ==
    /\ call.op = "RegisterConfigs"
    /\ call.err = NoErr
    /\ heap[LastRegistered(call.ruleName)].Price # defaultPrice

\* C7: a call of RegisterRule maps the rule's name to the rule just
\* registered, whatever was registered under the name before, leaves every
\* other name's mapping as it was, and changes no rule object.
C7_RegisterOverwritesOnlyItsName ==
    [][regLog' # regLog =>
         LET r == regLog'[Len(regLog')]
             n == Name(heap[r])
         IN  /\ n \in DOMAIN ruleRegistry'
             /\ ruleRegistry'[n] = r
             /\ DOMAIN ruleRegistry' = DOMAIN ruleRegistry \cup {n}
             /\ \A m \in DOMAIN ruleRegistry \ {n} : ruleRegistry'[m] = ruleRegistry[m]
             /\ heap' = heap]_vars

C7_Witness ==
    /\ call.op = "RegisterRule"
    /\ \E i \in 1..(Len(regLog) - 1) :
          /\ regLog[i] # call.r
          /\ Name(heap[regLog[i]]) = Name(heap[call.r])
    /\ ruleRegistry[Name(heap[call.r])] = call.r

\* the positions of ruleNames that name no registered rule
Unregistered(ruleNames) ==
    {i \in 1..Len(ruleNames) : ruleNames[i] \notin RegisteredNames}

\* C8: GetRegisteredRules resolves the names in input order: when all are
\* registered it adds one rule per name, in order; otherwise it returns an
\* error naming the first unregistered name and has added the rules of the
\* names before that one and of no name after it.
C8_GetRegisteredRulesFailsFast ==
    call.op = "GetRegisteredRules" =>
        LET names == call.ruleNames
            bad   == Unregistered(names)
            stop  == IF bad = {} THEN Len(names) + 1
                     ELSE CHOOSE i \in bad : \A j \in bad : i <= j
            added == SubSeq(call.rulesFound, Len(call.before) + 1, Len(call.rulesFound))
        IN  /\ SubSeq(call.rulesFound, 1, Len(call.before)) = call.before
            /\ Len(added) = stop - 1
            /\ \A i \in 1..(stop - 1) : added[i] = LastRegistered(names[i])
            /\ bad = {} => call.err = NoErr
            /\ bad # {} => call.err # NoErr /\ ErrNames(call.err, names[stop])

C8_Witness ==
    /\ call.op = "GetRegisteredRules"
    /\ call.err # NoErr
    /\ \E i \in 1..(Len(call.ruleNames) - 1) :
          /\ call.ruleNames[i] \notin RegisteredNames
          /\ call.ruleNames[i + 1] \in RegisteredNames

----------------------------------------------------------------------------
(* main and its post handler (postGather): posts are gathered until the    *)
(* threshold is met, then a report is mailed                               *)

MaxDelivered == 11    \* posts the listing delivers in a run at most
MaxBurst == 1         \* posts handled before main's wait() returns at most

defaultPostThreshold == 5

\* (g *postGather) flushPostQueue(): g.postQueue = nil
flushPostQueue == << >>

\* (g *postGather) getPostQueue()
getPostQueue(queue) == queue

\* (g *postGather) atPostThreshold()
atPostThreshold(queue, threshold) == Len(queue) >= threshold

\* (g *postGather) Post(p): the post queue after the call; sticky is the set
\* of keys of g.stickyPostQueue
Post(queue, sticky, p) ==
    IF ~p.Stickied \/ ~(p.ID \in sticky) THEN Append(queue, p) ELSE queue

\* a loop body that takes the batch and leaves the queue as it is
ReportOfKeepingQueue(hp, rs, queue) ==
    [posts      |-> getPostQueue(queue),
     matches    |-> matchPosts(hp, rs, flushPostQueue),
     queueAfter |-> queue,
     matchCalls |-> 0]

\* the body of main's loop once the threshold is met: the batch listed under
\* "Posts:", the matches listed under "Matches:", the queue it leaves and
\* the number of calls of Match it made.  The queue is flushed before
\* matchPosts reads it again through the handler.
ReportOf(hp, rs, queue) ==
    LET postQueue0 == getPostQueue(queue)
        flushed    == flushPostQueue
        matched    == getPostQueue(flushed)
    IN  [posts      |-> postQueue0,
         matches    |-> matchPosts(hp, rs, matched),
         queueAfter |-> flushed,
         matchCalls |-> Len(rs) * Len(matched)]

\* the posts the listing delivers: one plain, one stickied
MainPosts ==
    { NewPost("p1", <<"R","A","M"," ","$","1">>, FALSE),
      NewPost("p2", <<"$","1","0","0">>, TRUE) }

\* the "rules" of the configuration files of the model
MainConfigs ==
    { << >>,
      <<[ID |-> "a", Configs |-> << >>]>>,
      <<[ID |-> "ramunderprice", Configs |-> [price |-> JsonNum(ExamplePrice)]]>>,
      <<[ID |-> "ramunderprice", Configs |-> [price |-> JsonNum(ExamplePrice)]],
        [ID |-> "a", Configs |-> << >>]>>,
      <<[ID |-> "unknown-rule", Configs |-> << >>]>>,
      <<[ID |-> "ramunderprice", Configs |-> [price |-> JsonStr]]>> }

\* main has read its configuration; the RAM rule and a rule "a" that
\* matches the post p1 are registered; the handler is
\* &postGather{bot: bot, postThreshold: defaultPostThreshold}
InitMain ==
    /\ heap = <<NewRamUnderPrice, NewStub("a", {"p1"})>>
    /\ regLog = <<1, 2>>
    /\ ruleRegistry = RegistryAfter(heap, EmptyRegistry, regLog)
    /\ \E rcs \in MainConfigs : call = [op |-> "config", rcs |-> rcs]
    /\ pc = "main"
    /\ rules = << >>
    /\ postQueue = << >>
    /\ stickyPostQueue = {}
    /\ woken = 0
    /\ reports = << >>
    /\ matchCalls = 0

\* the posts delivered so far: those reported and those queued
Delivered ==
    LET RECURSIVE Count(_)
        Count(i) == IF i > Len(reports) THEN 0
                    ELSE Len(reports[i].posts) + Count(i + 1)
    IN  Count(1) + Len(postQueue)

\* graw calls handler.Post(p) while main waits in wait(); the handler
\* returns errfoundPost, which ends the run and the wait.  Posts already
\* dispatched may still be handled before main goes on (MaxBurst).
PostStep ==
    /\ pc = "loop"
    /\ Delivered < MaxDelivered
    /\ woken < MaxBurst
    /\ \E p \in MainPosts :
          /\ postQueue' = Post(postQueue, stickyPostQueue, p)
          /\ call' = [op |-> "Post", post |-> p, queueBefore |-> postQueue]
    /\ woken' = woken + 1
    /\ UNCHANGED <<heap, ruleRegistry, regLog, pc, rules, stickyPostQueue,
                   reports, matchCalls>>

\* one turn of main's loop after wait() has returned errfoundPost, below
\* the threshold: nothing is sent
BelowThresholdStep ==
    /\ pc = "loop"
    /\ woken > 0
    /\ ~atPostThreshold(postQueue, defaultPostThreshold)
    /\ woken' = 0
    /\ call' = [op |-> "loop", sent |-> FALSE, batch |-> << >>]
    /\ UNCHANGED <<heap, ruleRegistry, regLog, pc, rules, postQueue,
                   stickyPostQueue, reports, matchCalls>>

\* one turn of main's loop at the threshold: the report is built and given
\* to smtp.SendMail, which delivers it or fails (log.Panic)
ReportStep ==
    /\ pc = "loop"
    /\ woken > 0
    /\ atPostThreshold(postQueue, defaultPostThreshold)
    /\ LET rep == ReportOf(heap, rules, postQueue)
       IN  /\ postQueue' = rep.queueAfter
           /\ matchCalls' = matchCalls + rep.matchCalls
           /\ \E sent \in BOOLEAN :
                 /\ reports' = IF sent
                               THEN Append(reports, [posts |-> rep.posts,
                                                     matches |-> rep.matches])
                               ELSE reports
                 /\ pc' = IF sent THEN "loop" ELSE "panicked"
                 /\ call' = [op |-> "loop", sent |-> sent, batch |-> rep.posts]
    /\ woken' = 0
    /\ UNCHANGED <<heap, ruleRegistry, regLog, rules, stickyPostQueue>>

NextMain ==
    \/ getRulesStep
    \/ PostStep
    \/ BelowThresholdStep
    \/ ReportStep

SpecMain == InitMain /\ [][NextMain]_vars

\* C2: in every report mailed, the Matches section is what the configured
\* rules match in the batch of posts listed in the report's Posts section.
C2_MatchesAreOfTheReportedBatch ==
    \A i \in 1..Len(reports) :
        reports[i].matches = matchPosts(heap, rules, reports[i].posts)

\* C12: once getRules has returned an error, main never invokes a rule's
\* Match and never mails a report: it panics before it enters its loop.
C12_FailedBindAbortsTheRun ==
    []((call.op = "getRules" /\ call.err # NoErr)
          => [](/\ matchCalls = 0
                /\ reports = << >>
                /\ postQueue = << >>
                /\ pc = "panicked"))

C12_Witness ==
    /\ call.op = "getRules"
    /\ call.err # NoErr
    /\ ErrNames(call.err, "unknown-rule")
    /\ pc = "panicked"
    /\ reports = << >>
    /\ matchCalls = 0

RECURSIVE Listed(_, _)
\* the posts listed under "Posts:" in the reports rs from the i-th on
Listed(rs, i) == IF i > Len(rs) THEN << >> ELSE rs[i].posts \o Listed(rs, i + 1)

GatheredBefore ==
    {call.queueBefore[i].ID : i \in 1..Len(call.queueBefore)}
    \cup {Listed(reports, 1)[i].ID : i \in 1..Len(Listed(reports, 1))}

\* C19 as stated: Post does not append a stickied post whose ID was gathered
\* before, and appends every post that is not stickied.
C19_StickiedPostGatheredOnce ==
    call.op = "Post" =>
        /\ (call.post.Stickied /\ call.post.ID \in GatheredBefore)
              => postQueue = call.queueBefore
        /\ ~call.post.Stickied => postQueue = Append(call.queueBefore, call.post)
====
